---- MODULE Spec2Model ----
(***************************************************************************)
(* LR1110 secure element (lr1110-se.c): the non-volatile identity context  *)
(* and its change-notification callback, the key and CMAC operations that  *)
(* forward to the LR1110 crypto engine, and the join-accept processor.     *)
(*                                                                         *)
(* Every API function is one action: it runs from pc = "idle", performs    *)
(* the whole function body including every crypto-engine call it makes     *)
(* (recorded in dcalls, the engine's answers being inputs), and ends in    *)
(* pc = "returned" with the return value in ret, or in pc = "crashed" when *)
(* the body ran into undefined behaviour that the build turns into a       *)
(* fault.  Return hands control back to the caller.                        *)
(***************************************************************************)
EXTENDS Integers, Sequences, FiniteSets, TLC

VARIABLES
    pc,               \* "idle" | "returned" | "crashed"
    op,               \* the API function of the current/last call
    args,             \* its arguments (a record that depends on op)
    ret,              \* its return value (SecureElementStatus_t)
    dcalls,           \* the crypto-engine calls it made, in order
    ub,               \* the undefined behaviour it ran into
    SeContext,        \* static SecureElementNvCtx_t SeContext
    SeNvmCtxChanged,  \* static SecureElementNvmEvent SeNvmCtxChanged
    cbCount,          \* callback invocations made by the current/last call
    cbSnapshot,       \* history: SeContext at the last callback invocation
    restoredSinceCb,  \* history: RestoreNvmCtx ran after the last callback
    lastRestore,      \* history: blob and engine status of that RestoreNvmCtx
    build,            \* the preprocessor configuration of the build
    decJoinAccept,    \* caller memory: the decJoinAccept buffer
    versionMinor,     \* caller memory: *versionMinor
    micBuff,          \* ComputeAesCmac's scratch buffer micBuff
    micBuffOverrun    \* bytes ComputeAesCmac wrote past the end of micBuff

vars == << pc, op, args, ret, dcalls, ub, SeContext, SeNvmCtxChanged, cbCount,
           cbSnapshot, restoredSinceCb, lastRestore, build, decJoinAccept,
           versionMinor, micBuff, micBuffOverrun >>

callVars == << op, args, ret, dcalls, ub >>
ctxVars == << SeContext, SeNvmCtxChanged, cbCount, cbSnapshot, restoredSinceCb,
             lastRestore >>
joinVars == << decJoinAccept, versionMinor >>
cmacVars == << micBuff, micBuffOverrun >>

\* a null data pointer (no buffer) and a null function pointer
NULL == << >>
NULL_FN == "NULL"

(***************************************************************************)
(* Sizes and status codes.                                                 *)
(***************************************************************************)
SE_EUI_SIZE == 8
SE_PIN_SIZE == 4
MIC_BLOCK_BX_SIZE == 16
CRYPTO_MAXMESSAGE_SIZE == 256
CRYPTO_BUFFER_SIZE == CRYPTO_MAXMESSAGE_SIZE + MIC_BLOCK_BX_SIZE

\* lr1110_crypto_status_t, as the engine reports it
Lr1110CryptoStatus ==
    { "LR1110_CRYPTO_STATUS_SUCCESS", "LR1110_CRYPTO_STATUS_ERROR_FAIL_CMAC",
      "LR1110_CRYPTO_STATUS_ERROR_INVALID_KEY_ID",
      "LR1110_CRYPTO_STATUS_ERROR_BUFFER_SIZE", "LR1110_CRYPTO_STATUS_ERROR" }

\* ( SecureElementStatus_t ) status: the two enumerations share their values
CastStatus(s) ==
    CASE s = "LR1110_CRYPTO_STATUS_SUCCESS" -> "SECURE_ELEMENT_SUCCESS"
      [] s = "LR1110_CRYPTO_STATUS_ERROR_FAIL_CMAC" -> "SECURE_ELEMENT_FAIL_CMAC"
      [] s = "LR1110_CRYPTO_STATUS_ERROR_INVALID_KEY_ID" -> "SECURE_ELEMENT_ERROR_INVALID_KEY_ID"
      [] s = "LR1110_CRYPTO_STATUS_ERROR_BUFFER_SIZE" -> "SECURE_ELEMENT_ERROR_BUF_SIZE"
      [] s = "LR1110_CRYPTO_STATUS_ERROR" -> "SECURE_ELEMENT_ERROR"

\* the statuses a crypto-engine call can leave in a SecureElementStatus_t
EngineStatus == { CastStatus(s) : s \in Lr1110CryptoStatus }

(***************************************************************************)
(* Byte buffers are sequences of bytes (index 1 is C's offset 0).          *)
(***************************************************************************)
\* memcpy1( dst, src, size ): the first size bytes of dst become those of src
\* Variant of memcpy1 whose loop stops one byte early.
memcpy1_Short(dst, src, size) ==
    [i \in 1..Len(dst) |-> IF i < size THEN src[i] ELSE dst[i]]

memcpy1(dst, src, size) ==
    [i \in 1..Len(dst) |-> IF i <= size THEN src[i] ELSE dst[i]]

\* memcpyr replaced by a forward copy
memcpyr_Forward(dst, src, size) ==
    [i \in 1..Len(dst) |-> IF i <= size THEN src[i] ELSE dst[i]]

\* memcpyr( dst, src, size ): dst[size-1-k] = src[k], the copy is reversed
memcpyr(dst, src, size) ==
    [i \in 1..Len(dst) |-> IF i <= size THEN src[size + 1 - i] ELSE dst[i]]

\* memset1( dst, value, size )
memset1(dst, value, size) ==
    [i \in 1..Len(dst) |-> IF i <= size THEN value ELSE dst[i]]

(***************************************************************************)
(* Inputs the callers and the hardware supply.                             *)
(***************************************************************************)
EuiA == << 0, 0, 0, 0, 0, 0, 0, 0 >>
EuiB == << 1, 2, 3, 4, 5, 6, 7, 128 >>
EuiSamples == { EuiA, EuiB }
PinA == << 0, 0, 0, 0 >>
PinB == << 222, 173, 190, 239 >>
PinSamples == { PinA, PinB }

\* the identity configurations of SecureElementInit's #if ladder
IdentityBuilds == { "SECURE_ELEMENT_PRE_PROVISIONED", "MCU_UNIQUE_ID", "STATIC_DEVICE_EUI" }

\* static SeContext = { LORAWAN_DEVICE_EUI, LORAWAN_JOIN_EUI, SECURE_ELEMENT_PIN }
SeContextInitial == [DevEui |-> EuiA, JoinEui |-> EuiA, Pin |-> PinA]

\* an NVM blob: sizeof( SeContext ) bytes, DevEui then JoinEui then Pin
BlobSamples == { d \o j \o p : d \in EuiSamples, j \in EuiSamples, p \in PinSamples }

NoArgs == [none |-> TRUE]
NoDecBuffer == << >>
NoMicBuff == << >>
NoRestore == [blob |-> NULL, status |-> "none"]

(***************************************************************************)
(* The initial state: statics as the loader leaves them, no call running.  *)
(***************************************************************************)
Init ==
    /\ pc = "idle"
    /\ op = "none"
    /\ args = NoArgs
    /\ ret = "none"
    /\ dcalls = << >>
    /\ ub = {}
    /\ SeContext = SeContextInitial
    /\ SeNvmCtxChanged = NULL_FN
    /\ cbCount = 0
    /\ cbSnapshot = SeContextInitial
    /\ restoredSinceCb = FALSE
    /\ lastRestore = NoRestore
    /\ build \in [USE_LRWAN_1_1_X_CRYPTO : {0, 1}, identity : IdentityBuilds]
    /\ decJoinAccept = NoDecBuffer
    /\ versionMinor = 0
    /\ micBuff = NoMicBuff
    /\ micBuffOverrun = 0

\* the caller takes the result; the next call starts from a clean record
Return ==
    /\ pc = "returned"
    /\ pc' = "idle"
    /\ op' = "none"
    /\ args' = NoArgs
    /\ ret' = "none"
    /\ dcalls' = << >>
    /\ ub' = {}
    /\ cbCount' = 0
    /\ decJoinAccept' = NoDecBuffer
    /\ versionMinor' = 0
    /\ micBuff' = NoMicBuff
    /\ micBuffOverrun' = 0
    /\ UNCHANGED << SeContext, SeNvmCtxChanged, cbSnapshot, restoredSinceCb,
                    lastRestore, build >>

(***************************************************************************)
(* Context management.                                                     *)
(***************************************************************************)
\* SeNvmCtxChanged( ) after the context has become ctx.  A call through the
\* never-assigned (null) pointer is undefined behaviour: the build faults.
InvokeCallback(ctx, status) ==
    IF SeNvmCtxChanged' = NULL_FN
    THEN /\ pc' = "crashed"
         /\ ub' = {"call through null SeNvmCtxChanged"}
         /\ ret' = "none"
         /\ cbCount' = 0
         /\ UNCHANGED << cbSnapshot, restoredSinceCb, lastRestore >>
    ELSE /\ pc' = "returned"
         /\ ub' = {}
         /\ ret' = status
         /\ cbCount' = 1
         /\ cbSnapshot' = ctx
         /\ restoredSinceCb' = FALSE
         /\ lastRestore' = NoRestore

\* return SECURE_ELEMENT_ERROR_NPE before anything else happened
ReturnNpe ==
    /\ pc' = "returned"
    /\ ret' = "SECURE_ELEMENT_ERROR_NPE"
    /\ dcalls' = << >>
    /\ ub' = {}

SecureElementInit ==
    /\ pc = "idle"
    /\ \E seNvmCtxChanged \in {NULL_FN, "UserCB"}, st \in Lr1110CryptoStatus,
          uid \in EuiSamples, jeui \in EuiSamples, pin \in PinSamples :
        /\ op' = "SecureElementInit"
        /\ args' = [seNvmCtxChanged |-> seNvmCtxChanged]
        /\ SeNvmCtxChanged' = IF seNvmCtxChanged # NULL_FN THEN seNvmCtxChanged ELSE "DummyCB"
        /\ dcalls' = << [fn |-> "lr1110_crypto_restore_from_flash", status |-> st] >>
        /\ SeContext' =
              CASE build.identity = "SECURE_ELEMENT_PRE_PROVISIONED" ->
                      [DevEui |-> uid, JoinEui |-> jeui, Pin |-> pin]
                [] build.identity = "MCU_UNIQUE_ID" ->
                      [SeContext EXCEPT !.DevEui = uid]
                [] OTHER -> SeContext
        /\ InvokeCallback(SeContext', CastStatus(st))
    /\ UNCHANGED << build, joinVars, cmacVars >>

\* Variant of SecureElementRestoreNvmCtx that copies the blob only when the
\* engine restored its keys.
SecureElementRestoreNvmCtx_OnlyOnSuccess ==
    /\ pc = "idle"
    /\ \E seNvmCtx \in {NULL} \cup BlobSamples, st \in Lr1110CryptoStatus :
        /\ op' = "SecureElementRestoreNvmCtx"
        /\ args' = [seNvmCtx |-> seNvmCtx]
        /\ IF seNvmCtx = NULL
           THEN /\ ReturnNpe
                /\ UNCHANGED << SeContext, restoredSinceCb, lastRestore >>
           ELSE /\ dcalls' = << [fn |-> "lr1110_crypto_restore_from_flash", status |-> st] >>
                /\ SeContext' =
                      IF st = "LR1110_CRYPTO_STATUS_SUCCESS"
                      THEN [DevEui |-> SubSeq(seNvmCtx, 1, SE_EUI_SIZE),
                            JoinEui |-> SubSeq(seNvmCtx, SE_EUI_SIZE + 1, 2 * SE_EUI_SIZE),
                            Pin |-> SubSeq(seNvmCtx, 2 * SE_EUI_SIZE + 1,
                                           2 * SE_EUI_SIZE + SE_PIN_SIZE)]
                      ELSE SeContext
                /\ restoredSinceCb' = TRUE
                /\ lastRestore' = [blob |-> seNvmCtx, status |-> st]
                /\ pc' = "returned"
                /\ ub' = {}
                /\ ret' = CastStatus(st)
    /\ UNCHANGED << SeNvmCtxChanged, cbCount, cbSnapshot, build, joinVars, cmacVars >>

SecureElementRestoreNvmCtx ==
    /\ pc = "idle"
    /\ \E seNvmCtx \in {NULL} \cup BlobSamples, st \in Lr1110CryptoStatus :
        /\ op' = "SecureElementRestoreNvmCtx"
        /\ args' = [seNvmCtx |-> seNvmCtx]
        /\ IF seNvmCtx = NULL
           THEN /\ ReturnNpe
                /\ UNCHANGED << SeContext, restoredSinceCb, lastRestore >>
           ELSE /\ dcalls' = << [fn |-> "lr1110_crypto_restore_from_flash", status |-> st] >>
                /\ SeContext' =
                      [DevEui |-> SubSeq(seNvmCtx, 1, SE_EUI_SIZE),
                       JoinEui |-> SubSeq(seNvmCtx, SE_EUI_SIZE + 1, 2 * SE_EUI_SIZE),
                       Pin |-> SubSeq(seNvmCtx, 2 * SE_EUI_SIZE + 1, 2 * SE_EUI_SIZE + SE_PIN_SIZE)]
                /\ restoredSinceCb' = TRUE
                /\ lastRestore' = [blob |-> seNvmCtx, status |-> st]
                /\ pc' = "returned"
                /\ ub' = {}
                /\ ret' = CastStatus(st)
    /\ UNCHANGED << SeNvmCtxChanged, cbCount, cbSnapshot, build, joinVars, cmacVars >>

SecureElementGetNvmCtx ==
    /\ pc = "idle"
    /\ op' = "SecureElementGetNvmCtx"
    \* *seNvmCtxSize = sizeof( SeContext ), and the bytes behind &SeContext
    /\ args' = [seNvmCtxSize |-> 2 * SE_EUI_SIZE + SE_PIN_SIZE,
                bytes |-> SeContext.DevEui \o SeContext.JoinEui \o SeContext.Pin]
    /\ pc' = "returned"
    /\ ret' = "&SeContext"
    /\ dcalls' = << >>
    /\ ub' = {}
    /\ UNCHANGED << ctxVars, build, joinVars, cmacVars >>

\* the three setters share their shape: null check, copy of one field, callback
\* Variant of the setters that signals the change before testing the input.
SetField_NotifyOnNull(name, field, value, size) ==
    /\ pc = "idle"
    /\ op' = name
    /\ args' = [value |-> value]
    /\ dcalls' = << >>
    /\ IF value = NULL
       THEN /\ UNCHANGED << SeContext, SeNvmCtxChanged >>
            /\ InvokeCallback(SeContext, "SECURE_ELEMENT_ERROR_NPE")
       ELSE /\ SeContext' = [SeContext EXCEPT ![field] = memcpy1(@, value, size)]
            /\ UNCHANGED SeNvmCtxChanged
            /\ InvokeCallback(SeContext', "SECURE_ELEMENT_SUCCESS")
    /\ UNCHANGED << build, joinVars, cmacVars >>

SetField(name, field, value, size) ==
    /\ pc = "idle"
    /\ op' = name
    /\ args' = [value |-> value]
    /\ dcalls' = << >>
    /\ IF value = NULL
       THEN /\ ReturnNpe
            /\ UNCHANGED ctxVars
       ELSE /\ SeContext' = [SeContext EXCEPT ![field] = memcpy1(@, value, size)]
            /\ UNCHANGED SeNvmCtxChanged
            /\ InvokeCallback(SeContext', "SECURE_ELEMENT_SUCCESS")
    /\ UNCHANGED << build, joinVars, cmacVars >>

SecureElementSetDevEui ==
    \E devEui \in {NULL} \cup EuiSamples :
        SetField("SecureElementSetDevEui", "DevEui", devEui, SE_EUI_SIZE)

SecureElementSetJoinEui ==
    \E joinEui \in {NULL} \cup EuiSamples :
        SetField("SecureElementSetJoinEui", "JoinEui", joinEui, SE_EUI_SIZE)

\* SecureElementSetPin with the SeNvmCtxChanged( ) call left out
SecureElementSetPin_NoCallback ==
    \E pin \in PinSamples :
        /\ pc = "idle"
        /\ op' = "SecureElementSetPin"
        /\ args' = [value |-> pin]
        /\ dcalls' = << >>
        /\ SeContext' = [SeContext EXCEPT !.Pin = memcpy1(@, pin, SE_PIN_SIZE)]
        /\ pc' = "returned"
        /\ ub' = {}
        /\ ret' = "SECURE_ELEMENT_SUCCESS"
        /\ cbCount' = 0
        /\ UNCHANGED << SeNvmCtxChanged, cbSnapshot, restoredSinceCb, lastRestore, build,
                        joinVars, cmacVars >>

SecureElementSetPin ==
    \E pin \in {NULL} \cup PinSamples :
        SetField("SecureElementSetPin", "Pin", pin, SE_PIN_SIZE)

NextCtx ==
    \/ SecureElementInit
    \/ SecureElementRestoreNvmCtx
    \/ SecureElementGetNvmCtx
    \/ SecureElementSetDevEui
    \/ SecureElementSetJoinEui
    \/ SecureElementSetPin
    \/ Return

SpecCtx == Init /\ [][NextCtx]_vars

(***************************************************************************)
(* Key identifiers and their LR1110 key slots.                             *)
(***************************************************************************)
\* the identifiers convert_key_id_from_se_to_lr1110 names, in its order
\* #define NUM_OF_KEYS 23
NUM_OF_KEYS == 23

DeclaredKeys ==
    << "APP_KEY", "NWK_KEY", "J_S_INT_KEY", "J_S_ENC_KEY", "F_NWK_S_INT_KEY",
       "S_NWK_S_INT_KEY", "NWK_S_ENC_KEY", "APP_S_KEY", "MC_ROOT_KEY", "MC_KE_KEY",
       "MC_KEY_0", "MC_APP_S_KEY_0", "MC_NWK_S_KEY_0",
       "MC_KEY_1", "MC_APP_S_KEY_1", "MC_NWK_S_KEY_1",
       "MC_KEY_2", "MC_APP_S_KEY_2", "MC_NWK_S_KEY_2",
       "MC_KEY_3", "MC_APP_S_KEY_3", "MC_NWK_S_KEY_3", "SLOT_RAND_ZERO_KEY" >>

\* KeyIdentifier_t: the declared identifiers and one value the switch omits
KeyIdentifier == { DeclaredKeys[i] : i \in DOMAIN DeclaredKeys } \cup { "NO_KEY" }

\* Variant of the key mapping in which the MC_KEY_1 case returns the slot of
\* the case above it.
convert_key_id_from_se_to_lr1110_Slip(key_id) ==
    CASE key_id = "APP_KEY" -> "LR1110_CRYPTO_KEYS_IDX_APP_KEY"
      [] key_id = "NWK_KEY" -> "LR1110_CRYPTO_KEYS_IDX_NWK_KEY"
      [] key_id = "J_S_INT_KEY" -> "LR1110_CRYPTO_KEYS_IDX_J_S_INT_KEY"
      [] key_id = "J_S_ENC_KEY" -> "LR1110_CRYPTO_KEYS_IDX_J_S_ENC_KEY"
      [] key_id = "F_NWK_S_INT_KEY" -> "LR1110_CRYPTO_KEYS_IDX_F_NWK_S_INT_KEY"
      [] key_id = "S_NWK_S_INT_KEY" -> "LR1110_CRYPTO_KEYS_IDX_S_NWK_S_INT_KEY"
      [] key_id = "NWK_S_ENC_KEY" -> "LR1110_CRYPTO_KEYS_IDX_NWK_S_ENC_KEY"
      [] key_id = "APP_S_KEY" -> "LR1110_CRYPTO_KEYS_IDX_APP_S_KEY"
      [] key_id = "MC_ROOT_KEY" -> "LR1110_CRYPTO_KEYS_IDX_GP_KE_KEY_5"
      [] key_id = "MC_KE_KEY" -> "LR1110_CRYPTO_KEYS_IDX_GP_KE_KEY_4"
      [] key_id = "MC_KEY_0" -> "LR1110_CRYPTO_KEYS_IDX_GP_KE_KEY_0"
      [] key_id = "MC_APP_S_KEY_0" -> "LR1110_CRYPTO_KEYS_IDX_MC_APP_S_KEY_0"
      [] key_id = "MC_NWK_S_KEY_0" -> "LR1110_CRYPTO_KEYS_IDX_MC_NWK_S_KEY_0"
      [] key_id = "MC_KEY_1" -> "LR1110_CRYPTO_KEYS_IDX_GP_KE_KEY_0"
      [] key_id = "MC_APP_S_KEY_1" -> "LR1110_CRYPTO_KEYS_IDX_MC_APP_S_KEY_1"
      [] key_id = "MC_NWK_S_KEY_1" -> "LR1110_CRYPTO_KEYS_IDX_MC_NWK_S_KEY_1"
      [] key_id = "MC_KEY_2" -> "LR1110_CRYPTO_KEYS_IDX_GP_KE_KEY_2"
      [] key_id = "MC_APP_S_KEY_2" -> "LR1110_CRYPTO_KEYS_IDX_MC_APP_S_KEY_2"
      [] key_id = "MC_NWK_S_KEY_2" -> "LR1110_CRYPTO_KEYS_IDX_MC_NWK_S_KEY_2"
      [] key_id = "MC_KEY_3" -> "LR1110_CRYPTO_KEYS_IDX_GP_KE_KEY_3"
      [] key_id = "MC_APP_S_KEY_3" -> "LR1110_CRYPTO_KEYS_IDX_MC_APP_S_KEY_3"
      [] key_id = "MC_NWK_S_KEY_3" -> "LR1110_CRYPTO_KEYS_IDX_MC_NWK_S_KEY_3"
      [] key_id = "SLOT_RAND_ZERO_KEY" -> "LR1110_CRYPTO_KEYS_IDX_GP0"
      [] OTHER -> "LR1110_CRYPTO_KEYS_IDX_GP1"

convert_key_id_from_se_to_lr1110(key_id) ==
    CASE key_id = "APP_KEY" -> "LR1110_CRYPTO_KEYS_IDX_APP_KEY"
      [] key_id = "NWK_KEY" -> "LR1110_CRYPTO_KEYS_IDX_NWK_KEY"
      [] key_id = "J_S_INT_KEY" -> "LR1110_CRYPTO_KEYS_IDX_J_S_INT_KEY"
      [] key_id = "J_S_ENC_KEY" -> "LR1110_CRYPTO_KEYS_IDX_J_S_ENC_KEY"
      [] key_id = "F_NWK_S_INT_KEY" -> "LR1110_CRYPTO_KEYS_IDX_F_NWK_S_INT_KEY"
      [] key_id = "S_NWK_S_INT_KEY" -> "LR1110_CRYPTO_KEYS_IDX_S_NWK_S_INT_KEY"
      [] key_id = "NWK_S_ENC_KEY" -> "LR1110_CRYPTO_KEYS_IDX_NWK_S_ENC_KEY"
      [] key_id = "APP_S_KEY" -> "LR1110_CRYPTO_KEYS_IDX_APP_S_KEY"
      [] key_id = "MC_ROOT_KEY" -> "LR1110_CRYPTO_KEYS_IDX_GP_KE_KEY_5"
      [] key_id = "MC_KE_KEY" -> "LR1110_CRYPTO_KEYS_IDX_GP_KE_KEY_4"
      [] key_id = "MC_KEY_0" -> "LR1110_CRYPTO_KEYS_IDX_GP_KE_KEY_0"
      [] key_id = "MC_APP_S_KEY_0" -> "LR1110_CRYPTO_KEYS_IDX_MC_APP_S_KEY_0"
      [] key_id = "MC_NWK_S_KEY_0" -> "LR1110_CRYPTO_KEYS_IDX_MC_NWK_S_KEY_0"
      [] key_id = "MC_KEY_1" -> "LR1110_CRYPTO_KEYS_IDX_GP_KE_KEY_1"
      [] key_id = "MC_APP_S_KEY_1" -> "LR1110_CRYPTO_KEYS_IDX_MC_APP_S_KEY_1"
      [] key_id = "MC_NWK_S_KEY_1" -> "LR1110_CRYPTO_KEYS_IDX_MC_NWK_S_KEY_1"
      [] key_id = "MC_KEY_2" -> "LR1110_CRYPTO_KEYS_IDX_GP_KE_KEY_2"
      [] key_id = "MC_APP_S_KEY_2" -> "LR1110_CRYPTO_KEYS_IDX_MC_APP_S_KEY_2"
      [] key_id = "MC_NWK_S_KEY_2" -> "LR1110_CRYPTO_KEYS_IDX_MC_NWK_S_KEY_2"
      [] key_id = "MC_KEY_3" -> "LR1110_CRYPTO_KEYS_IDX_GP_KE_KEY_3"
      [] key_id = "MC_APP_S_KEY_3" -> "LR1110_CRYPTO_KEYS_IDX_MC_APP_S_KEY_3"
      [] key_id = "MC_NWK_S_KEY_3" -> "LR1110_CRYPTO_KEYS_IDX_MC_NWK_S_KEY_3"
      [] key_id = "SLOT_RAND_ZERO_KEY" -> "LR1110_CRYPTO_KEYS_IDX_GP0"
      [] OTHER -> "LR1110_CRYPTO_KEYS_IDX_GP1"

(***************************************************************************)
(* Key storage and derivation.                                             *)
(***************************************************************************)
\* a 16-byte key or derivation input, as the caller holds it
KeySamples ==
    { << 1, 2, 3, 4, 5, 6, 7, 8, 9, 10, 11, 12, 13, 14, 15, 16 >>,
      << 255, 0, 255, 0, 255, 0, 255, 0, 255, 0, 255, 0, 255, 0, 255, 0 >> }

\* the root keys SecureElementDeriveAndStoreKey is driven with
RootKeySamples == { "APP_KEY", "NWK_KEY", "MC_ROOT_KEY", "MC_KE_KEY", "NO_KEY" }

\* lr1110_crypto_store_to_flash( &LR1110, &status ) appended to the calls
StoreToFlash(calls, st) ==
    Append(calls, [fn |-> "lr1110_crypto_store_to_flash", status |-> st])

\* the multicast keys SecureElementSetKey unwraps with MC_KE_KEY
IsMcKey(keyID) ==
    (keyID = "MC_KEY_0") \/ (keyID = "MC_KEY_1") \/ (keyID = "MC_KEY_2") \/ (keyID = "MC_KEY_3")

\* the store-to-flash step of SecureElementSetKey made unconditional
PersistIfSuccess_Always(calls, st, stFlash) ==
    [calls |-> StoreToFlash(calls, stFlash), status |-> CastStatus(stFlash)]

\* if( status == SECURE_ELEMENT_SUCCESS ) lr1110_crypto_store_to_flash( ..., &status );
\* return status;
PersistIfSuccess(calls, st, stFlash) ==
    IF CastStatus(st) = "SECURE_ELEMENT_SUCCESS"
    THEN [calls |-> StoreToFlash(calls, stFlash), status |-> CastStatus(stFlash)]
    ELSE [calls |-> calls, status |-> CastStatus(st)]

SecureElementSetKey ==
    /\ pc = "idle"
    /\ \E keyID \in KeyIdentifier, key \in {NULL} \cup KeySamples,
          st \in Lr1110CryptoStatus, stFlash \in Lr1110CryptoStatus :
        /\ op' = "SecureElementSetKey"
        /\ args' = [keyID |-> keyID, key |-> key]
        /\ IF key = NULL
           THEN ReturnNpe
           ELSE LET first ==
                        IF IsMcKey(keyID)
                        THEN [fn |-> "lr1110_crypto_derive_and_store_key", status |-> st,
                              src_key_id |-> convert_key_id_from_se_to_lr1110("MC_KE_KEY"),
                              dest_key_id |-> convert_key_id_from_se_to_lr1110(keyID),
                              nonce |-> key]
                        ELSE [fn |-> "lr1110_crypto_set_key", status |-> st,
                              key_id |-> convert_key_id_from_se_to_lr1110(keyID),
                              key |-> key]
                    r == PersistIfSuccess(<< first >>, st, stFlash)
                IN  /\ dcalls' = r.calls
                    /\ ret' = r.status
                    /\ pc' = "returned"
                    /\ ub' = {}
    /\ UNCHANGED << ctxVars, build, joinVars, cmacVars >>

SecureElementDeriveAndStoreKey ==
    /\ pc = "idle"
    /\ \E input \in {NULL} \cup KeySamples, rootKeyID \in RootKeySamples,
          targetKeyID \in KeyIdentifier,
          st \in Lr1110CryptoStatus, stFlash \in Lr1110CryptoStatus :
        /\ op' = "SecureElementDeriveAndStoreKey"
        /\ args' = [input |-> input, rootKeyID |-> rootKeyID, targetKeyID |-> targetKeyID]
        /\ IF input = NULL
           THEN ReturnNpe
           ELSE \* the derivation, then the store to flash whatever it reported
                /\ dcalls' = StoreToFlash(
                      << [fn |-> "lr1110_crypto_derive_and_store_key", status |-> st,
                          src_key_id |-> convert_key_id_from_se_to_lr1110(rootKeyID),
                          dest_key_id |-> convert_key_id_from_se_to_lr1110(targetKeyID),
                          nonce |-> input] >>, stFlash)
                /\ ret' = CastStatus(stFlash)
                /\ pc' = "returned"
                /\ ub' = {}
    /\ UNCHANGED << ctxVars, build, joinVars, cmacVars >>

\* the engine calls of the last operation that went to function fn
CallsTo(fn) == SelectSeq(dcalls, LAMBDA c : c.fn = fn)

NextKeys ==
    \/ SecureElementSetKey
    \/ SecureElementDeriveAndStoreKey
    \/ Return

SpecKeys == Init /\ [][NextKeys]_vars

(***************************************************************************)
(* CMAC, encryption and random numbers.                                    *)
(***************************************************************************)
\* the uint16_t sizes the callers are driven with: around the MIC-block
\* ceilings of 240 and 256 bytes and around the wrap of size + 16
SizeSamples == { 0, 1, 16, 240, 241, 256, 257, 300, 65519, 65520, 65535 }

\* a 16-byte B0/B1 block
MicBxSamples == { << 73, 0, 0, 0, 0, 0, 1, 2, 3, 4, 5, 0, 0, 0, 0, 16 >> }

\* the byte at offset k of the caller's message buffer
BufferByte(seed, k) == (seed + 7 * k) % 256
BufferSeeds == { 1, 200 }

\* the keys the CMAC and encryption calls are driven with
CryptoKeySamples == { "NWK_KEY", "APP_S_KEY", "MC_NWK_S_KEY_1", "NO_KEY" }

Min(a, b) == IF a <= b THEN a ELSE b
Max(a, b) == IF a >= b THEN a ELSE b

\* uint8_t micBuff[CRYPTO_BUFFER_SIZE] before memset1: indeterminate bytes
MicBuffUninitialized == [i \in 1..CRYPTO_BUFFER_SIZE |-> 170]

\* memcpy1( micBuff + MIC_BLOCK_BX_SIZE, buffer, size ) inside the array
CopyMessage(buf, seed, size) ==
    [i \in 1..Len(buf) |->
        IF i > MIC_BLOCK_BX_SIZE /\ i <= MIC_BLOCK_BX_SIZE + size
        THEN BufferByte(seed, i - MIC_BLOCK_BX_SIZE - 1)
        ELSE buf[i]]

\* micBuff as the three copies leave it
ComposeMicBuff(micBx, seed, size) ==
    CopyMessage(
        memcpy1(memset1(MicBuffUninitialized, 0, CRYPTO_BUFFER_SIZE), micBx, MIC_BLOCK_BX_SIZE),
        seed, size)

\* the bytes the message copy writes past the end of micBuff
MessageOverrun(size) == Max(0, MIC_BLOCK_BX_SIZE + size - CRYPTO_BUFFER_SIZE)

ComputeCmacCall(keyID, buffer, length, st) ==
    [fn |-> "lr1110_crypto_compute_aes_cmac", status |-> st,
     key_id |-> convert_key_id_from_se_to_lr1110(keyID),
     data |-> buffer, length |-> length]

SecureElementComputeAesCmac ==
    /\ pc = "idle"
    /\ \E micBxBuffer \in {NULL} \cup MicBxSamples, seed \in BufferSeeds,
          size \in SizeSamples, keyID \in CryptoKeySamples,
          st \in Lr1110CryptoStatus, faults \in BOOLEAN :
        /\ op' = "SecureElementComputeAesCmac"
        /\ args' = [micBxBuffer |-> micBxBuffer, seed |-> seed, size |-> size, keyID |-> keyID]
        /\ IF micBxBuffer # NULL
           THEN /\ micBuff' = ComposeMicBuff(micBxBuffer, seed, size)
                /\ micBuffOverrun' = MessageOverrun(size)
                /\ IF MessageOverrun(size) > 0 /\ faults
                   THEN \* the write past the array is undefined: the build may fault
                        /\ pc' = "crashed"
                        /\ ub' = {"write past micBuff"}
                        /\ dcalls' = << >>
                        /\ ret' = "none"
                   ELSE \* localSize += MIC_BLOCK_BX_SIZE in uint16_t
                        /\ pc' = "returned"
                        /\ ub' = IF MessageOverrun(size) > 0 THEN {"write past micBuff"} ELSE {}
                        /\ dcalls' = << ComputeCmacCall(keyID, "micBuff",
                                          (size + MIC_BLOCK_BX_SIZE) % 65536, st) >>
                        /\ ret' = CastStatus(st)
           ELSE /\ ~faults
                /\ UNCHANGED cmacVars
                /\ pc' = "returned"
                /\ ub' = {}
                /\ dcalls' = << ComputeCmacCall(keyID, "buffer", size, st) >>
                /\ ret' = CastStatus(st)
    /\ UNCHANGED << ctxVars, build, joinVars >>

SecureElementVerifyAesCmac ==
    /\ pc = "idle"
    /\ \E bufferNull \in BOOLEAN, size \in SizeSamples, keyID \in CryptoKeySamples,
          st \in Lr1110CryptoStatus :
        /\ op' = "SecureElementVerifyAesCmac"
        /\ args' = [bufferNull |-> bufferNull, size |-> size, keyID |-> keyID]
        /\ IF bufferNull
           THEN ReturnNpe
           ELSE /\ dcalls' = << [fn |-> "lr1110_crypto_verify_aes_cmac", status |-> st,
                                 key_id |-> convert_key_id_from_se_to_lr1110(keyID),
                                 data |-> "buffer", length |-> size] >>
                /\ ret' = CastStatus(st)
                /\ pc' = "returned"
                /\ ub' = {}
    /\ UNCHANGED << ctxVars, build, joinVars, cmacVars >>

SecureElementAesEncrypt ==
    /\ pc = "idle"
    /\ \E bufferNull \in BOOLEAN, encBufferNull \in BOOLEAN, size \in SizeSamples,
          keyID \in CryptoKeySamples, st \in Lr1110CryptoStatus :
        /\ op' = "SecureElementAesEncrypt"
        /\ args' = [bufferNull |-> bufferNull, encBufferNull |-> encBufferNull,
                    size |-> size, keyID |-> keyID]
        /\ IF bufferNull \/ encBufferNull
           THEN ReturnNpe
           ELSE /\ dcalls' = << [fn |-> "lr1110_crypto_aes_encrypt_01", status |-> st,
                                 key_id |-> convert_key_id_from_se_to_lr1110(keyID),
                                 data |-> "buffer", length |-> size] >>
                /\ ret' = CastStatus(st)
                /\ pc' = "returned"
                /\ ub' = {}
    /\ UNCHANGED << ctxVars, build, joinVars, cmacVars >>

SecureElementRandomNumber ==
    /\ pc = "idle"
    /\ \E randomNumNull \in BOOLEAN :
        /\ op' = "SecureElementRandomNumber"
        /\ args' = [randomNumNull |-> randomNumNull]
        /\ IF randomNumNull
           THEN ReturnNpe
           ELSE /\ dcalls' = << >>
                /\ ret' = "SECURE_ELEMENT_SUCCESS"
                /\ pc' = "returned"
                /\ ub' = {}
    /\ UNCHANGED << ctxVars, build, joinVars, cmacVars >>

NextCrypto ==
    \/ SecureElementComputeAesCmac
    \/ SecureElementVerifyAesCmac
    \/ SecureElementAesEncrypt
    \/ SecureElementRandomNumber
    \/ Return

SpecCrypto == Init /\ [][NextCrypto]_vars

(***************************************************************************)
(* Join-accept processing.                                                 *)
(***************************************************************************)
LORAMAC_JOIN_ACCEPT_FRAME_MAX_SIZE == 33
JOIN_ACCEPT_MIC_COMPUTATION_OFFSET == 12
LORAMAC_JOIN_EUI_FIELD_SIZE == 8
JOIN_REQ == 255

\* JoinReqIdentifier_t: two of the rejoin requests and the join request
JoinReqSamples == { 0, 2, JOIN_REQ }
DevNonceSamples == { 4660, 65280 }

\* encJoinAcceptSize (uint8_t): empty, header only, with and without the
\* DLSettings byte, with and without CFList, and over the maximum
FrameSizeSamples == { 0, 1, 11, 12, 17, 33, 34, 255 }

\* the byte that fills the caller's decJoinAccept before the call, and the
\* value of *versionMinor before the call
DecFillSamples == { 0, 255 }
VersionMinorSamples == { 9 }

\* the byte that fills the plaintext the engine writes: bit 0x80 clear or set
PlainSamples == { 17, 145 }

\* the engine's answers to lr1110_crypto_process_join_accept
JoinStatusSamples ==
    { "LR1110_CRYPTO_STATUS_SUCCESS", "LR1110_CRYPTO_STATUS_ERROR_FAIL_CMAC",
      "LR1110_CRYPTO_STATUS_ERROR" }

\* the caller's decJoinAccept[LORAMAC_JOIN_ACCEPT_FRAME_MAX_SIZE]
DecBufferBefore(fill) == [i \in 1..LORAMAC_JOIN_ACCEPT_FRAME_MAX_SIZE |-> fill]

\* the size test with the maximum off by one
FrameTooBig_OffByOne(encJoinAcceptSize) ==
    encJoinAcceptSize > LORAMAC_JOIN_ACCEPT_FRAME_MAX_SIZE + 1

\* if( encJoinAcceptSize > LORAMAC_JOIN_ACCEPT_FRAME_MAX_SIZE )
FrameTooBig(encJoinAcceptSize) ==
    encJoinAcceptSize > LORAMAC_JOIN_ACCEPT_FRAME_MAX_SIZE

\* encJoinAcceptSize - 1 passed as the engine's uint8_t length
BodyLength(encJoinAcceptSize) == (encJoinAcceptSize - 1) % 256

\* KeyIdentifier_t encKeyID = NWK_KEY; if( joinReqType != JOIN_REQ ) encKeyID = J_S_ENC_KEY;
\* Variant of the decryption key choice that ignores the join-request type.
EncKeyID_AlwaysNwkKey(joinReqType) == "NWK_KEY"

EncKeyID(joinReqType) == IF joinReqType # JOIN_REQ THEN "J_S_ENC_KEY" ELSE "NWK_KEY"

\* ( ( decJoinAccept[11] & 0x80 ) == 0x80 ) ? 1 : 0
VersionBit(dec) == IF (dec[12] \div 128) % 2 = 1 THEN 1 ELSE 0

\* the engine writes length plaintext bytes at decJoinAccept + 1; a failing
\* engine call may or may not have written (failWrites)
EngineWrite(dec, length, plain, st, failWrites) ==
    IF st = "LR1110_CRYPTO_STATUS_SUCCESS" \/ failWrites
    THEN [i \in 1..Len(dec) |-> IF i >= 2 /\ i <= length + 1 THEN plain ELSE dec[i]]
    ELSE dec

\* the bytes such a write puts past the end of the caller's buffer
EngineOverrun(dec, length, st, failWrites) ==
    IF st = "LR1110_CRYPTO_STATUS_SUCCESS" \/ failWrites
    THEN Max(0, length + 1 - Len(dec))
    ELSE 0

JoinAcceptCall(encKeyID, micKeyID, version, header, length, st, decAfter) ==
    [fn |-> "lr1110_crypto_process_join_accept", status |-> st,
     dec_key_id |-> convert_key_id_from_se_to_lr1110(encKeyID),
     ver_key_id |-> convert_key_id_from_se_to_lr1110(micKeyID),
     lorawan_version |-> version, header |-> header,
     data_in |-> "encJoinAccept + 1", length |-> length,
     data_out |-> "decJoinAccept + 1", bit |-> VersionBit(decAfter)]

\* uint8_t micHeader10[1] = { 0x20 }
micHeader10 == << 32 >>

\* micHeader11 = [JoinReqType(1), JoinEUI(8) reversed, DevNonce(2) low byte first, MHDR(1)]
micHeader11(joinReqType, joinEui, devNonce) ==
    LET zero == [i \in 1..JOIN_ACCEPT_MIC_COMPUTATION_OFFSET |-> 0]
        eui == memcpyr([i \in 1..LORAMAC_JOIN_EUI_FIELD_SIZE |-> 0], joinEui,
                       LORAMAC_JOIN_EUI_FIELD_SIZE)
    IN  [i \in 1..JOIN_ACCEPT_MIC_COMPUTATION_OFFSET |->
            CASE i = 1 -> joinReqType % 256
              [] i >= 2 /\ i <= 1 + LORAMAC_JOIN_EUI_FIELD_SIZE -> eui[i - 1]
              [] i = 2 + LORAMAC_JOIN_EUI_FIELD_SIZE -> devNonce % 256
              [] i = 3 + LORAMAC_JOIN_EUI_FIELD_SIZE -> (devNonce \div 256) % 256
              [] i = 4 + LORAMAC_JOIN_EUI_FIELD_SIZE -> 32
              [] OTHER -> zero[i]]

\* the 1.0.x trial never returning on its own
ReturnsAfterTrial10_Never(status, minor) == FALSE

\* if( status == SECURE_ELEMENT_SUCCESS ) { ... if( *versionMinor == 0 ) return SECURE_ELEMENT_SUCCESS; }
ReturnsAfterTrial10(status, minor) ==
    status = "SECURE_ELEMENT_SUCCESS" /\ minor = 0

\* if( status == SECURE_ELEMENT_SUCCESS ) { ... if( *versionMinor == 1 ) return SECURE_ELEMENT_SUCCESS; }
ReturnsAfterTrial11(status, minor) ==
    status = "SECURE_ELEMENT_SUCCESS" /\ minor = 1

\* The two trials of a call that passed the pointer and size checks.  in holds
\* the arguments and the caller's memory, eng the engine's answers: st1, plain1
\* and st2, plain2 for the two calls, failWrites, and for undefined behaviour
\* faults (the build faults at its first occurrence) and stray (the bytes a
\* read through a null joinEui yields).
JoinAcceptTrials(in, eng, use11) ==
    LET encKeyID == EncKeyID(in.joinReqType)
        length == BodyLength(in.encJoinAcceptSize)
        dec0 == DecBufferBefore(in.decFill)
        \* 1.0.x trial
        dec1 == EngineWrite(dec0, length, eng.plain1, eng.st1, eng.failWrites)
        over1 == EngineOverrun(dec0, length, eng.st1, eng.failWrites)
        call1 == JoinAcceptCall(encKeyID, "NWK_KEY", 0, micHeader10, length, eng.st1, dec1)
        status1 == CastStatus(eng.st1)
        minor1 == IF status1 = "SECURE_ELEMENT_SUCCESS" THEN VersionBit(dec1)
                  ELSE in.versionMinor
        ub1 == IF over1 > 0 THEN {"write past decJoinAccept"} ELSE {}
        \* 1.1.x trial
        nullEui == in.joinEui = NULL
        header == micHeader11(in.joinReqType, IF nullEui THEN eng.stray ELSE in.joinEui,
                              in.devNonce)
        dec2 == EngineWrite(dec1, length, eng.plain2, eng.st2, eng.failWrites)
        over2 == EngineOverrun(dec1, length, eng.st2, eng.failWrites)
        call2 == JoinAcceptCall(encKeyID, "J_S_INT_KEY", 1, header, length, eng.st2, dec2)
        status2 == CastStatus(eng.st2)
        minor2 == IF status2 = "SECURE_ELEMENT_SUCCESS" THEN VersionBit(dec2) ELSE minor1
        ub2 == ub1 \cup (IF nullEui THEN {"read through null joinEui"} ELSE {})
                   \cup (IF over2 > 0 THEN {"write past decJoinAccept"} ELSE {})
    IN  CASE ub1 # {} /\ eng.faults ->
                [pc |-> "crashed", ret |-> "none", dcalls |-> << call1 >>, ub |-> ub1,
                 dec |-> dec1, minor |-> in.versionMinor]
          [] ~(ub1 # {} /\ eng.faults) /\ ReturnsAfterTrial10(status1, minor1) ->
                [pc |-> "returned", ret |-> "SECURE_ELEMENT_SUCCESS", dcalls |-> << call1 >>,
                 ub |-> ub1, dec |-> dec1, minor |-> minor1]
          [] ~(ub1 # {} /\ eng.faults) /\ ~ReturnsAfterTrial10(status1, minor1) /\ use11 = 0 ->
                [pc |-> "returned", ret |-> status1, dcalls |-> << call1 >>,
                 ub |-> ub1, dec |-> dec1, minor |-> minor1]
          [] OTHER ->
                IF ub1 = {} /\ nullEui /\ eng.faults
                THEN [pc |-> "crashed", ret |-> "none", dcalls |-> << call1 >>,
                      ub |-> {"read through null joinEui"}, dec |-> dec1, minor |-> minor1]
                ELSE IF ub1 = {} /\ over2 > 0 /\ eng.faults
                THEN [pc |-> "crashed", ret |-> "none", dcalls |-> << call1, call2 >>,
                      ub |-> ub2, dec |-> dec2, minor |-> minor1]
                ELSE [pc |-> "returned",
                      ret |-> IF ReturnsAfterTrial11(status2, minor2)
                              THEN "SECURE_ELEMENT_SUCCESS" ELSE status2,
                      dcalls |-> << call1, call2 >>, ub |-> ub2, dec |-> dec2,
                      minor |-> minor2]

\* the arguments and the caller's memory of a SecureElementProcessJoinAccept call
JoinInputs ==
    [joinReqType : JoinReqSamples, joinEui : {NULL} \cup EuiSamples,
     devNonce : DevNonceSamples, encJoinAcceptSize : FrameSizeSamples,
     absent : SUBSET {"encJoinAccept", "decJoinAccept", "versionMinor"},
     decFill : DecFillSamples, versionMinor : VersionMinorSamples]

EngineAnswers ==
    [st1 : JoinStatusSamples, plain1 : PlainSamples,
     st2 : JoinStatusSamples, plain2 : PlainSamples,
     failWrites : BOOLEAN, faults : BOOLEAN, stray : {EuiB}]

SecureElementProcessJoinAccept ==
    /\ pc = "idle"
    /\ \E in \in JoinInputs :
        /\ op' = "SecureElementProcessJoinAccept"
        /\ args' = in
        /\ IF in.absent # {}
           THEN /\ ReturnNpe
                /\ decJoinAccept' = IF "decJoinAccept" \in in.absent THEN NULL
                                    ELSE DecBufferBefore(in.decFill)
                /\ versionMinor' = in.versionMinor
           ELSE IF FrameTooBig(in.encJoinAcceptSize)
           THEN /\ pc' = "returned"
                /\ ret' = "SECURE_ELEMENT_ERROR_BUF_SIZE"
                /\ dcalls' = << >>
                /\ ub' = {}
                /\ decJoinAccept' = DecBufferBefore(in.decFill)
                /\ versionMinor' = in.versionMinor
           ELSE \E eng \in EngineAnswers :
                  LET r == JoinAcceptTrials(in, eng, build.USE_LRWAN_1_1_X_CRYPTO)
                  IN  /\ pc' = r.pc
                      /\ ret' = r.ret
                      /\ dcalls' = r.dcalls
                      /\ ub' = r.ub
                      /\ decJoinAccept' = r.dec
                      /\ versionMinor' = r.minor
    /\ UNCHANGED << ctxVars, build, cmacVars >>

\* the join-accept processor alone: the identity configuration plays no part
InitJoin == Init /\ build.identity = "STATIC_DEVICE_EUI"

NextJoin ==
    \/ SecureElementProcessJoinAccept
    \/ Return

SpecJoin == InitJoin /\ [][NextJoin]_vars

(***************************************************************************)
(* Context claims.                                                         *)
(***************************************************************************)
Setters == { "SecureElementSetDevEui", "SecureElementSetJoinEui", "SecureElementSetPin" }

\* C10 as stated: every operation that changes the context, RestoreNvmCtx
\* included, invokes the callback after the mutation, so that in no state of
\* the running program the context differs from its value at the last
\* callback invocation.
C10_ContextAlwaysNotified ==
    pc # "crashed" => SeContext = cbSnapshot

\* C10 as amended: SetDevEui, SetJoinEui, SetPin and Init invoke the callback
\* exactly once after their mutation whenever they get past their null check;
\* RestoreNvmCtx replaces the context without invoking it.  In the running
\* program the context differs from its value at the last callback invocation
\* only when a RestoreNvmCtx came after that invocation.
C10_NotifiedExceptAfterRestore ==
    /\ (pc # "crashed" /\ SeContext # cbSnapshot) => restoredSinceCb
    /\ (pc = "returned" /\ op \in Setters /\ args.value # NULL) =>
            (cbCount = 1 /\ SeContext = cbSnapshot /\ ~restoredSinceCb)
    /\ (pc = "returned" /\ op = "SecureElementInit") =>
            (cbCount = 1 /\ SeContext = cbSnapshot /\ ~restoredSinceCb)
    /\ (pc = "returned" /\ op = "SecureElementRestoreNvmCtx") => cbCount = 0

\* a setter has changed the context and has notified the change
C10_Witness ==
    /\ pc = "returned"
    /\ op = "SecureElementSetPin"
    /\ SeContext.Pin = PinB
    /\ cbCount = 1
    /\ SeContext = cbSnapshot

(***************************************************************************)
(* Key storage and derivation claims.                                      *)
(***************************************************************************)
\* SecureElementDeriveAndStoreKey has returned from a call with an input
DerivedWithInput ==
    /\ pc = "returned"
    /\ op = "SecureElementDeriveAndStoreKey"
    /\ args.input # NULL

\* C1: in SecureElementDeriveAndStoreKey with a non-null input, when the
\* derive_and_store_key engine call reports a failure, store_to_flash is not
\* called in that invocation.
C1_NoPersistAfterFailedDerivation ==
    (DerivedWithInput /\ CastStatus(dcalls[1].status) # "SECURE_ELEMENT_SUCCESS") =>
        CallsTo("lr1110_crypto_store_to_flash") = << >>

\* C2: SecureElementDeriveAndStoreKey with a non-null input returns the
\* failure status of the derive_and_store_key engine call unchanged, whatever
\* store_to_flash reports.
C2_DerivationFailureForwarded ==
    (DerivedWithInput /\ CastStatus(dcalls[1].status) # "SECURE_ELEMENT_SUCCESS") =>
        ret = CastStatus(dcalls[1].status)

\* the slot each multicast key is derived into
McKeySlot(keyID) ==
    CASE keyID = "MC_KEY_0" -> "LR1110_CRYPTO_KEYS_IDX_GP_KE_KEY_0"
      [] keyID = "MC_KEY_1" -> "LR1110_CRYPTO_KEYS_IDX_GP_KE_KEY_1"
      [] keyID = "MC_KEY_2" -> "LR1110_CRYPTO_KEYS_IDX_GP_KE_KEY_2"
      [] keyID = "MC_KEY_3" -> "LR1110_CRYPTO_KEYS_IDX_GP_KE_KEY_3"

\* C7: SecureElementSetKey for MC_KEY_0..3 calls derive_and_store_key with the
\* MC_KE_KEY slot as root and the keyID slot as target and never set_key; for
\* every other keyID it calls set_key and never derive_and_store_key (the call
\* is made once the key passed the null check, and no engine call is made
\* before it).  In both branches store_to_flash is called exactly once, after
\* a successful store or derivation, and not at all after a failed one, whose
\* status is then the return value.
C7_SetKeyBranches ==
    (pc = "returned" /\ op = "SecureElementSetKey") =>
        /\ args.keyID \in {"MC_KEY_0", "MC_KEY_1", "MC_KEY_2", "MC_KEY_3"} =>
              /\ CallsTo("lr1110_crypto_set_key") = << >>
              /\ args.key # NULL =>
                    /\ Len(CallsTo("lr1110_crypto_derive_and_store_key")) = 1
                    /\ dcalls[1].fn = "lr1110_crypto_derive_and_store_key"
                    /\ dcalls[1].src_key_id = "LR1110_CRYPTO_KEYS_IDX_GP_KE_KEY_4"
                    /\ dcalls[1].dest_key_id = McKeySlot(args.keyID)
                    /\ dcalls[1].nonce = args.key
        /\ args.keyID \notin {"MC_KEY_0", "MC_KEY_1", "MC_KEY_2", "MC_KEY_3"} =>
              /\ CallsTo("lr1110_crypto_derive_and_store_key") = << >>
              /\ args.key # NULL =>
                    /\ Len(CallsTo("lr1110_crypto_set_key")) = 1
                    /\ dcalls[1].fn = "lr1110_crypto_set_key"
                    /\ dcalls[1].key = args.key
        /\ args.key = NULL => dcalls = << >>
        /\ args.key # NULL =>
              IF CastStatus(dcalls[1].status) = "SECURE_ELEMENT_SUCCESS"
              THEN /\ Len(dcalls) = 2
                   /\ dcalls[2].fn = "lr1110_crypto_store_to_flash"
                   /\ ret = CastStatus(dcalls[2].status)
              ELSE /\ Len(dcalls) = 1
                   /\ ret = CastStatus(dcalls[1].status)
                   /\ ret # "SECURE_ELEMENT_SUCCESS"

\* a multicast key was derived and then stored to flash
C7_Witness ==
    /\ pc = "returned"
    /\ op = "SecureElementSetKey"
    /\ args.keyID = "MC_KEY_2"
    /\ args.key # NULL
    /\ Len(dcalls) = 2
    /\ dcalls[1].fn = "lr1110_crypto_derive_and_store_key"
    /\ dcalls[2].fn = "lr1110_crypto_store_to_flash"

(***************************************************************************)
(* CMAC claims.                                                            *)
(***************************************************************************)
\* C4: SecureElementComputeAesCmac with a MIC block and size + 16 above the
\* scratch capacity of 256 + 16 bytes returns the buffer-size error, writes
\* nothing past micBuff and does not call the engine.
C4_CmacOverflowRejected ==
    ( /\ pc # "idle"
      /\ op = "SecureElementComputeAesCmac"
      /\ args.micBxBuffer # NULL
      /\ args.size + MIC_BLOCK_BX_SIZE > CRYPTO_BUFFER_SIZE ) =>
        /\ pc = "returned"
        /\ ret = "SECURE_ELEMENT_ERROR_BUF_SIZE"
        /\ micBuffOverrun = 0
        /\ dcalls = << >>

(***************************************************************************)
(* Join-accept claims.                                                     *)
(***************************************************************************)
\* SecureElementProcessJoinAccept was called and has returned
JoinReturned == pc = "returned" /\ op = "SecureElementProcessJoinAccept"

\* the engine call k of the last operation succeeded and left bit 0x80 of
\* decJoinAccept[11] at b
TrialGave(k, b) ==
    /\ Len(dcalls) >= k
    /\ dcalls[k].status = "LR1110_CRYPTO_STATUS_SUCCESS"
    /\ dcalls[k].bit = b

\* C3: SecureElementProcessJoinAccept returns Success only when a trial was
\* self-consistent: the 1.0.x trial succeeded with bit 0x80 of decrypted byte
\* 11 clear (*versionMinor = 0), or the 1.1.x trial succeeded with the bit set
\* (*versionMinor = 1).  After any other run of the trials the return value is
\* the last engine status and it is an error.  (Stated for the calls that are
\* free of undefined behaviour and whose frame holds the DLSettings byte.)
C3_SuccessOnlyWhenSelfConsistent ==
    (JoinReturned /\ dcalls # << >> /\ ub = {} /\ args.encJoinAcceptSize >= 12) =>
        \/ /\ ret = "SECURE_ELEMENT_SUCCESS"
           /\ Len(dcalls) = 1
           /\ dcalls[1].lorawan_version = 0
           /\ TrialGave(1, 0)
           /\ versionMinor = 0
        \/ /\ ret = "SECURE_ELEMENT_SUCCESS"
           /\ Len(dcalls) = 2
           /\ dcalls[2].lorawan_version = 1
           /\ TrialGave(2, 1)
           /\ versionMinor = 1
        \/ /\ ret # "SECURE_ELEMENT_SUCCESS"
           /\ ret = CastStatus(dcalls[Len(dcalls)].status)

\* C5: when the 1.0.x engine call succeeds and bit 0x80 of decrypted byte 11
\* is clear, SecureElementProcessJoinAccept returns Success with
\* *versionMinor = 0 after exactly one engine call, the 1.0.x one, whatever
\* the join-request type, JoinEUI and DevNonce.
C5_V10AcceptedAfterOneCall ==
    (JoinReturned /\ TrialGave(1, 0)) =>
        /\ ret = "SECURE_ELEMENT_SUCCESS"
        /\ versionMinor = 0
        /\ Len(dcalls) = 1
        /\ dcalls[1].fn = "lr1110_crypto_process_join_accept"
        /\ dcalls[1].lorawan_version = 0

\* a 1.0.x join accept with CFList-less body was accepted by a build that
\* has the 1.1.x trial compiled in
C5_Witness ==
    /\ JoinReturned
    /\ build.USE_LRWAN_1_1_X_CRYPTO = 1
    /\ args.encJoinAcceptSize = 17
    /\ TrialGave(1, 0)
    /\ ret = "SECURE_ELEMENT_SUCCESS"
    /\ Len(dcalls) = 1

\* the MIC header of the 1.1.x trial, written out byte by byte
ExpectedMicHeader11 ==
    << args.joinReqType,
       args.joinEui[8], args.joinEui[7], args.joinEui[6], args.joinEui[5],
       args.joinEui[4], args.joinEui[3], args.joinEui[2], args.joinEui[1],
       args.devNonce % 256, (args.devNonce \div 256) % 256, 32 >>

\* C6: with 1.1.x support compiled in, when the 1.0.x engine call fails,
\* exactly two engine calls are made, the 1.0.x one and then the 1.1.x one,
\* the second with the 12-byte MIC header [joinReqType, joinEui[7..0],
\* devNonce low byte, devNonce high byte, 0x20]; and when that second call
\* succeeds with bit 0x80 of decrypted byte 11 set, the function returns
\* Success with *versionMinor = 1.
C6_V11AcceptedAfterTwoCalls ==
    ( /\ JoinReturned
      /\ build.USE_LRWAN_1_1_X_CRYPTO = 1
      /\ args.joinEui # NULL
      /\ dcalls # << >>
      /\ dcalls[1].status # "LR1110_CRYPTO_STATUS_SUCCESS" ) =>
        /\ Len(dcalls) = 2
        /\ dcalls[1].lorawan_version = 0
        /\ dcalls[1].header = << 32 >>
        /\ dcalls[2].fn = "lr1110_crypto_process_join_accept"
        /\ dcalls[2].lorawan_version = 1
        /\ dcalls[2].header = ExpectedMicHeader11
        /\ TrialGave(2, 1) => (ret = "SECURE_ELEMENT_SUCCESS" /\ versionMinor = 1)

\* a 1.1.x join accept was accepted on the second trial
C6_Witness ==
    /\ JoinReturned
    /\ build.USE_LRWAN_1_1_X_CRYPTO = 1
    /\ args.joinEui = EuiB
    /\ args.encJoinAcceptSize = 33
    /\ Len(dcalls) = 2
    /\ dcalls[1].status = "LR1110_CRYPTO_STATUS_ERROR_FAIL_CMAC"
    /\ TrialGave(2, 1)
    /\ ret = "SECURE_ELEMENT_SUCCESS"
    /\ versionMinor = 1

\* C8: SecureElementProcessJoinAccept called without encJoinAccept,
\* decJoinAccept, versionMinor or joinEui returns SECURE_ELEMENT_ERROR_NPE
\* without calling the engine and without reading through the null pointer.
\* (Stated for the build that compiles the 1.1.x trial in, the one that reads
\* joinEui, and for frames of a valid size that hold the DLSettings byte.)
C8_AbsentPointersRejected ==
    ( /\ pc # "idle"
      /\ op = "SecureElementProcessJoinAccept"
      /\ build.USE_LRWAN_1_1_X_CRYPTO = 1
      /\ args.encJoinAcceptSize >= 12
      /\ ~FrameTooBig(args.encJoinAcceptSize)
      /\ (args.absent # {} \/ args.joinEui = NULL) ) =>
        /\ pc = "returned"
        /\ ret = "SECURE_ELEMENT_ERROR_NPE"
        /\ dcalls = << >>
        /\ ub = {}

\* C9: SecureElementProcessJoinAccept with its three buffers present and
\* encJoinAcceptSize above LORAMAC_JOIN_ACCEPT_FRAME_MAX_SIZE returns
\* SECURE_ELEMENT_ERROR_BUF_SIZE, calls the engine not once, and leaves
\* decJoinAccept and *versionMinor as they were.
C9_OversizedFrameRejected ==
    ( /\ pc # "idle"
      /\ op = "SecureElementProcessJoinAccept"
      /\ args.absent = {}
      /\ args.encJoinAcceptSize > LORAMAC_JOIN_ACCEPT_FRAME_MAX_SIZE ) =>
        /\ pc = "returned"
        /\ ret = "SECURE_ELEMENT_ERROR_BUF_SIZE"
        /\ dcalls = << >>
        /\ decJoinAccept = DecBufferBefore(args.decFill)
        /\ versionMinor = args.versionMinor

\* a frame one byte over the maximum was rejected
C9_Witness ==
    /\ JoinReturned
    /\ args.absent = {}
    /\ args.encJoinAcceptSize = LORAMAC_JOIN_ACCEPT_FRAME_MAX_SIZE + 1
    /\ ret = "SECURE_ELEMENT_ERROR_BUF_SIZE"

(***************************************************************************)
(* Identity setters (lines 377-419).                                       *)
(***************************************************************************)

\* The context field a setter targets.
TargetField(name) ==
    CASE name = "SecureElementSetDevEui" -> "DevEui"
      [] name = "SecureElementSetJoinEui" -> "JoinEui"
      [] name = "SecureElementSetPin" -> "Pin"

\* C11: a setter (SetDevEui, SetJoinEui, SetPin) called with a null input
\* returns SECURE_ELEMENT_ERROR_NPE, does not invoke the change callback and
\* leaves the whole persistent context as it was before the call.
C11_NullSetterChangesNothing ==
    [][ (pc = "idle" /\ op' \in Setters /\ args'.value = NULL)
        => /\ pc' = "returned"
           /\ ret' = "SECURE_ELEMENT_ERROR_NPE"
           /\ cbCount' = 0
           /\ cbSnapshot' = cbSnapshot
           /\ SeContext' = SeContext
           /\ SeNvmCtxChanged' = SeNvmCtxChanged ]_vars

\* A setter has returned from a null input while the context held identity
\* values other than the built-in ones and a callback was installed.
C11_Witness ==
    /\ pc = "returned"
    /\ op = "SecureElementSetJoinEui"
    /\ args.value = NULL
    /\ ret = "SECURE_ELEMENT_ERROR_NPE"
    /\ SeNvmCtxChanged = "UserCB"
    /\ SeContext # SeContextInitial

\* C12: a setter call that succeeds invokes the change callback exactly once,
\* leaves its field equal to the supplied bytes and leaves the two other
\* identity fields as they were.
C12_SetterWritesOneFieldAndNotifies ==
    [][ (pc = "idle" /\ op' \in Setters /\ pc' = "returned"
            /\ ret' = "SECURE_ELEMENT_SUCCESS")
        => /\ cbCount' = 1
           /\ SeContext'[TargetField(op')] = args'.value
           /\ \A f \in {"DevEui", "JoinEui", "Pin"} \ {TargetField(op')} :
                  SeContext'[f] = SeContext[f] ]_vars

\* SetDevEui has succeeded with a value whose last byte differs from the
\* built-in one, the other two fields holding values set earlier.
C12_Witness ==
    /\ pc = "returned"
    /\ op = "SecureElementSetDevEui"
    /\ ret = "SECURE_ELEMENT_SUCCESS"
    /\ args.value = EuiB
    /\ cbCount = 1
    /\ SeContext = [DevEui |-> EuiB, JoinEui |-> EuiB, Pin |-> PinB]

\* C13: the change callback is always callable: SecureElementInit installs
\* the callback it is given, or the no-op one when given null, and whenever a
\* setter gets to invoke SeNvmCtxChanged the pointer is not null.
C13_CallbackAlwaysCallable ==
    /\ (pc = "returned" /\ op = "SecureElementInit")
          => SeNvmCtxChanged = IF args.seNvmCtxChanged # NULL_FN
                               THEN args.seNvmCtxChanged ELSE "DummyCB"
    /\ (pc # "idle" /\ op \in Setters /\ args.value # NULL)
          => SeNvmCtxChanged # NULL_FN

(***************************************************************************)
(* Snapshot and restore (lines 146-168).                                   *)
(***************************************************************************)

\* C14: GetNvmCtx called right after RestoreNvmCtx( blob ), blob not null,
\* hands back a context whose bytes are those of blob and reports the size
\* of the context structure, whatever status the engine's restore reported.
C14_RestoreThenGetRoundTrip ==
    (pc = "returned" /\ op = "SecureElementGetNvmCtx" /\ lastRestore # NoRestore)
        => /\ args.bytes = lastRestore.blob
           /\ args.seNvmCtxSize = 2 * SE_EUI_SIZE + SE_PIN_SIZE

\* GetNvmCtx has returned after a restore of a blob that differs from the
\* built-in context in every field, the engine having reported an error.
C14_Witness ==
    /\ pc = "returned"
    /\ op = "SecureElementGetNvmCtx"
    /\ lastRestore = [blob |-> EuiB \o EuiB \o PinB,
                      status |-> "LR1110_CRYPTO_STATUS_ERROR"]
    /\ args.bytes = EuiB \o EuiB \o PinB
    /\ args.seNvmCtxSize = 20

\* C15: in SecureElementProcessJoinAccept the decryption key is NWK_KEY when
\* joinReqType is JOIN_REQ and J_S_ENC_KEY otherwise, the same in both trials;
\* the first trial verifies with NWK_KEY, LoRaWAN version 1.0 and the one-byte
\* header [0x20], the second with J_S_INT_KEY and version 1.1; both trials are
\* given the same body pointers (frame + 1) and the same body length.
C15_JoinTrialParameters ==
    (pc # "idle" /\ op = "SecureElementProcessJoinAccept" /\ dcalls # << >>) =>
        /\ \A k \in DOMAIN dcalls :
              /\ dcalls[k].fn = "lr1110_crypto_process_join_accept"
              /\ dcalls[k].dec_key_id =
                    IF args.joinReqType = JOIN_REQ
                    THEN "LR1110_CRYPTO_KEYS_IDX_NWK_KEY"
                    ELSE "LR1110_CRYPTO_KEYS_IDX_J_S_ENC_KEY"
              /\ dcalls[k].data_in = "encJoinAccept + 1"
              /\ dcalls[k].data_out = "decJoinAccept + 1"
              /\ dcalls[k].length = dcalls[1].length
        /\ dcalls[1].ver_key_id = "LR1110_CRYPTO_KEYS_IDX_NWK_KEY"
        /\ dcalls[1].lorawan_version = 0
        /\ dcalls[1].header = << 32 >>
        /\ Len(dcalls) <= 2
        /\ Len(dcalls) = 2 =>
              /\ dcalls[2].ver_key_id = "LR1110_CRYPTO_KEYS_IDX_J_S_INT_KEY"
              /\ dcalls[2].lorawan_version = 1

\* a rejoin-type frame of 17 bytes went through both trials, each decrypting
\* with the J_S_ENC_KEY slot
C15_Witness ==
    /\ JoinReturned
    /\ args.joinReqType = 0
    /\ args.encJoinAcceptSize = 17
    /\ Len(dcalls) = 2
    /\ dcalls[1].dec_key_id = "LR1110_CRYPTO_KEYS_IDX_J_S_ENC_KEY"
    /\ dcalls[2].dec_key_id = "LR1110_CRYPTO_KEYS_IDX_J_S_ENC_KEY"
    /\ dcalls[2].length = 16

(***************************************************************************)
(* CMAC computation (lines 204-228).                                       *)
(***************************************************************************)

\* C16: SecureElementComputeAesCmac given a MIC block invokes the engine's
\* CMAC exactly once over micBlock(16) || buffer[0..size) with length
\* size + 16; given none it invokes it exactly once over the caller's buffer
\* with length size.  The key slot is the mapping of keyID and the engine's
\* status is the return value.
C16_CmacDelegation ==
    (pc # "idle" /\ op = "SecureElementComputeAesCmac") =>
        /\ pc = "returned"
        /\ Len(dcalls) = 1
        /\ dcalls[1].fn = "lr1110_crypto_compute_aes_cmac"
        /\ dcalls[1].key_id = convert_key_id_from_se_to_lr1110(args.keyID)
        /\ ret = CastStatus(dcalls[1].status)
        /\ IF args.micBxBuffer # NULL
           THEN /\ dcalls[1].data = "micBuff"
                /\ dcalls[1].length = args.size + MIC_BLOCK_BX_SIZE
                /\ micBuffOverrun = 0
                /\ Len(micBuff) >= args.size + MIC_BLOCK_BX_SIZE
                /\ \A i \in 1..MIC_BLOCK_BX_SIZE : micBuff[i] = args.micBxBuffer[i]
                /\ \A k \in 0..(args.size - 1) :
                      micBuff[MIC_BLOCK_BX_SIZE + 1 + k] = BufferByte(args.seed, k)
           ELSE /\ dcalls[1].data = "buffer"
                /\ dcalls[1].length = args.size

(***************************************************************************)
(* Key identifier mapping (lines 426-506).                                 *)
(***************************************************************************)

DeclaredKeySet == { DeclaredKeys[i] : i \in DOMAIN DeclaredKeys }

\* C17: convert_key_id_from_se_to_lr1110 maps the 23 declared key
\* identifiers to pairwise distinct engine slots and every other value to
\* LR1110_CRYPTO_KEYS_IDX_GP1, which is the slot of no declared identifier.
\* (Read off the slot the engine is handed as derivation target.)
C17_KeyMappingInjective ==
    ( /\ pc = "returned"
      /\ op = "SecureElementDeriveAndStoreKey"
      /\ args.input # NULL ) =>
        LET slot == dcalls[1].dest_key_id
        IN  /\ Cardinality(DeclaredKeySet) = NUM_OF_KEYS
            /\ args.targetKeyID \in DeclaredKeySet =>
                  /\ slot # "LR1110_CRYPTO_KEYS_IDX_GP1"
                  /\ \A other \in DeclaredKeySet \ {args.targetKeyID} :
                        convert_key_id_from_se_to_lr1110(other) # slot
            /\ args.targetKeyID \notin DeclaredKeySet =>
                  /\ slot = "LR1110_CRYPTO_KEYS_IDX_GP1"
                  /\ \A other \in DeclaredKeySet :
                        convert_key_id_from_se_to_lr1110(other) # slot

\* a derivation targeted a value outside the enumeration and the engine was
\* handed the GP1 slot
C17_Witness ==
    /\ pc = "returned"
    /\ op = "SecureElementDeriveAndStoreKey"
    /\ args.input # NULL
    /\ args.targetKeyID = "NO_KEY"
    /\ dcalls[1].dest_key_id = "LR1110_CRYPTO_KEYS_IDX_GP1"

(***************************************************************************)
(* Join-accept buffer bounds (lines 293-361).                              *)
(***************************************************************************)

\* the last operation is a SecureElementProcessJoinAccept call that got past
\* its pointer test
JoinCalled ==
    pc # "idle" /\ op = "SecureElementProcessJoinAccept" /\ args.absent = {}

\* C18: SecureElementProcessJoinAccept never writes byte 0 of decJoinAccept,
\* and of that buffer only bytes 1..encJoinAcceptSize-1 may have been
\* overwritten, by the engine; nothing is written outside that range.
C18_OnlyBodyBytesWritten ==
    JoinCalled =>
        /\ decJoinAccept[1] = args.decFill
        /\ \A i \in 2..Len(decJoinAccept) :
              decJoinAccept[i] # args.decFill => i <= args.encJoinAcceptSize
        /\ "write past decJoinAccept" \notin ub

\* C19: whenever the version bit at decJoinAccept[11] is inspected (a trial's
\* engine call succeeded), that byte was written by the engine in the same
\* trial: the frame has at least 12 bytes.  (Stated for frames that hold at
\* least the MHDR byte.)
C19_VersionBitFromDecryptedBytes ==
    ( /\ JoinCalled
      /\ args.encJoinAcceptSize >= 1
      /\ \E k \in DOMAIN dcalls : dcalls[k].status = "LR1110_CRYPTO_STATUS_SUCCESS" ) =>
        args.encJoinAcceptSize >= JOIN_ACCEPT_MIC_COMPUTATION_OFFSET

\* C20: for every call that passes validation the body length handed to the
\* engine is encJoinAcceptSize - 1, at most
\* LORAMAC_JOIN_ACCEPT_FRAME_MAX_SIZE - 1: the subtraction never wraps and
\* encJoinAcceptSize = 0 does not reach the engine with length 255.
C20_BodyLengthInRange ==
    (JoinCalled /\ dcalls # << >>) =>
        \A k \in DOMAIN dcalls :
            /\ dcalls[k].length = args.encJoinAcceptSize - 1
            /\ dcalls[k].length <= LORAMAC_JOIN_ACCEPT_FRAME_MAX_SIZE - 1

====
